---- MODULE Spec2Model ----
(***************************************************************************)
(* Model of the test-and-typecheck MCP server: the tree flattener          *)
(* (extractTestCases), the two report formatters (formatTestResults,       *)
(* formatTypeErrors), the diagnostic collector (runTypeCheck) and the      *)
(* tools/call request handler of index.js.                                 *)
(*                                                                         *)
(* Representation of JavaScript values                                     *)
(*   - a string that may contain line feeds is the sequence of its lines   *)
(*     (what s.split("\n") yields); the empty string is <<"">>.  A string  *)
(*     known to hold no line feed (a name, a file key) is a TLA+ string.   *)
(*   - an optional value is <<>> (undefined) or <<v>>.                     *)
(*   - the result of a call that may throw is Ok(v) or Throw(message).     *)
(*   - glyphs outside ASCII are written with one ASCII character per       *)
(*     character of the source literal, so that lengths are kept.          *)
(***************************************************************************)
EXTENDS Integers, Sequences, FiniteSets, TLC

VARIABLES
    fPc, fEntity, fParentPath, fRet,     \* one call of extractTestCases
    tPc, tInput, tOut,                   \* one call of formatTestResults
    ePc, eInput, eOut,                   \* one call of formatTypeErrors
    calls                                \* the invocations of the tools/call handler

fvars == <<fPc, fEntity, fParentPath, fRet>>
tvars == <<tPc, tInput, tOut>>
evars == <<ePc, eInput, eOut>>
vars == <<fvars, tvars, evars, calls>>

-----------------------------------------------------------------------------
(* Optional values and completions *)

Undefined == <<>>
Some(v) == <<v>>
IsDefined(o) == o # Undefined
Get(o) == o[1]

\* no exception: the message slot of a completion that returned
NoError == <<>>
Ok(v) == [ok |-> TRUE, val |-> v, err |-> NoError]
Throw(m) == [ok |-> FALSE, val |-> <<>>, err |-> m]

\* a field the node kind does not carry (reads as undefined)
Absent == "undefined"

\* the concatenation of a sequence of sequences
RECURSIVE ConcatAll(_)
ConcatAll(ss) == IF ss = <<>> THEN <<>> ELSE Head(ss) \o ConcatAll(Tail(ss))

-----------------------------------------------------------------------------
(* Bounds *)

MaxNodes == 4          \* nodes of a test-result tree
MaxResults == 3        \* entities handed to formatTestResults
MaxErrors == 3         \* records handed to formatTypeErrors

-----------------------------------------------------------------------------
(* Test-result trees (vitest's reported entities) *)

PassedResult == [state |-> "passed", errors |-> Undefined]

Returns(res) == [throws |-> FALSE, res |-> res, msg |-> NoError]
Throws(m) == [throws |-> TRUE, res |-> PassedResult, msg |-> m]
NoOutcome == [throws |-> FALSE, res |-> PassedResult, msg |-> NoError]

TestCase(name, outcome) ==
    [type |-> "test", name |-> name, moduleId |-> Absent,
     children |-> Undefined, outcome |-> outcome]
TestSuite(name, children) ==
    [type |-> "suite", name |-> name, moduleId |-> Absent,
     children |-> children, outcome |-> NoOutcome]
TestModule(moduleId, children) ==
    [type |-> "module", name |-> Absent, moduleId |-> moduleId,
     children |-> children, outcome |-> NoOutcome]
\* a node of a kind the flattener does not know
OtherNode(name, children) ==
    [type |-> "custom", name |-> name, moduleId |-> Absent,
     children |-> children, outcome |-> NoOutcome]

IsContainer(n) == n.type = "suite" \/ n.type = "module"

\* entity.children ?? []
ChildrenOf(n) == IF IsDefined(n.children) THEN Get(n.children) ELSE <<>>

RECURSIVE NodeCount(_)
RECURSIVE ForestCount(_)
NodeCount(n) == 1 + ForestCount(ChildrenOf(n))
ForestCount(f) == IF f = <<>> THEN 0 ELSE NodeCount(Get(Head(f))) + ForestCount(Tail(f))

FlatLeaves ==
    {TestCase(nm, oc) : nm \in {"t1", "t2"},
                        oc \in {Returns(PassedResult), Throws(<<"result failed">>)}}

\* the childless nodes: cases, and containers with no or with absent children
FlatChildless ==
    FlatLeaves \cup {TestSuite("s1", Some(<<>>)), TestModule("m.test.ts", Some(<<>>)),
                     TestModule("m.test.ts", Undefined), OtherNode("x", Some(<<>>))}

Header(kind, children) ==
    CASE kind = "suite"  -> TestSuite("s1", children)
      [] kind = "module" -> TestModule("m.test.ts", children)
      [] OTHER           -> OtherNode("x", children)

Kinds == {"suite", "module", "custom"}

RECURSIVE TreesUpTo(_)
RECURSIVE ForestsUpTo(_)
\* every tree of at most n nodes
TreesUpTo(n) ==
    IF n = 0 THEN {}
    ELSE FlatChildless
         \cup {Header(k, Some(f)) : k \in Kinds, f \in ForestsUpTo(n - 1) \ {<<>>}}
\* every sequence of trees of at most k nodes in all
ForestsUpTo(k) ==
    {<<>>} \cup
    UNION {{<<Some(t)>> \o f : f \in ForestsUpTo(k - NodeCount(t))} : t \in TreesUpTo(k)}

\* the roots handed to the flattener: a tree, or no tree at all
Roots == {Undefined} \cup {Some(t) : t \in TreesUpTo(MaxNodes)}
Prefixes == {<<>>, <<"root">>}

-----------------------------------------------------------------------------
(* extractTestCases.ts *)

RECURSIVE extractTestCases(_, _)
RECURSIVE FlatMapChildren(_, _)
RECURSIVE FlatMapChildren_Reversed(_, _)
RECURSIVE FlatMapChildren_SharedPath(_, _)

\* flatMap over children that push their names onto the one path array they
\* are all handed, so that a child sees the names of its earlier siblings
FlatMapChildren_SharedPath(kids, currentPath) ==
    IF kids = <<>> THEN Ok(<<>>)
    ELSE LET first == extractTestCases(Head(kids), currentPath)
             grown == currentPath \o (IF IsDefined(Head(kids))
                                      THEN <<Get(Head(kids)).name>> ELSE <<>>)
         IN IF ~first.ok THEN first
            ELSE LET rest == FlatMapChildren_SharedPath(Tail(kids), grown)
                 IN IF ~rest.ok THEN rest ELSE Ok(first.val \o rest.val)

\* flatMap that appends each child's entities in front of the earlier ones
FlatMapChildren_Reversed(kids, currentPath) ==
    IF kids = <<>> THEN Ok(<<>>)
    ELSE LET first == extractTestCases(Head(kids), currentPath)
         IN IF ~first.ok THEN first
            ELSE LET rest == FlatMapChildren_Reversed(Tail(kids), currentPath)
                 IN IF ~rest.ok THEN rest ELSE Ok(rest.val \o first.val)

\* Array.prototype.flatMap over the children: the first callback that throws
\* ends the loop and its exception leaves flatMap.
FlatMapChildren(kids, currentPath) ==
    IF kids = <<>> THEN Ok(<<>>)
    ELSE LET first == extractTestCases(Head(kids), currentPath)
         IN IF ~first.ok THEN first
            ELSE LET rest == FlatMapChildren(Tail(kids), currentPath)
                 IN IF ~rest.ok THEN rest ELSE Ok(first.val \o rest.val)

\* extractTestCases with the kind test of line 28 left out: every node that is
\* not a case is walked as a container
extractTestCases_AnyContainer(entity, parentPath) ==
    IF ~IsDefined(entity) THEN Ok(<<>>)
    ELSE LET e == Get(entity)
         IN IF e.type = "test"
            THEN IF e.outcome.throws
                 THEN Throw(e.outcome.msg)
                 ELSE Ok(<<[name |-> e.name,
                            path |-> parentPath \o <<e.name>>,
                            result |-> Some(e.outcome.res)]>>)
            ELSE LET currentPath ==
                         parentPath \o <<IF e.type = "suite" THEN e.name ELSE e.moduleId>>
                 IN FlatMapChildren(ChildrenOf(e), currentPath)

\* extractTestCases that hands the children parentPath instead of currentPath
extractTestCases_DropsContainer(entity, parentPath) ==
    IF ~IsDefined(entity) THEN Ok(<<>>)
    ELSE LET e == Get(entity)
         IN IF e.type = "test"
            THEN IF e.outcome.throws
                 THEN Throw(e.outcome.msg)
                 ELSE Ok(<<[name |-> e.name,
                            path |-> parentPath \o <<e.name>>,
                            result |-> Some(e.outcome.res)]>>)
            ELSE IF e.type = "suite" \/ e.type = "module"
            THEN FlatMapChildren(ChildrenOf(e), parentPath)
            ELSE Ok(<<>>)

\* extractTestCases that leaves out a case whose result() throws
extractTestCases_SkipsThrowing(entity, parentPath) ==
    IF ~IsDefined(entity) THEN Ok(<<>>)
    ELSE LET e == Get(entity)
         IN IF e.type = "test"
            THEN IF e.outcome.throws
                 THEN Ok(<<>>)
                 ELSE Ok(<<[name |-> e.name,
                            path |-> parentPath \o <<e.name>>,
                            result |-> Some(e.outcome.res)]>>)
            ELSE IF e.type = "suite" \/ e.type = "module"
            THEN LET currentPath ==
                         parentPath \o <<IF e.type = "suite" THEN e.name ELSE e.moduleId>>
                 IN FlatMapChildren(ChildrenOf(e), currentPath)
            ELSE Ok(<<>>)

\* extractTestCases that reads the name of every container, also of a module
extractTestCases_NameOfModule(entity, parentPath) ==
    IF ~IsDefined(entity) THEN Ok(<<>>)
    ELSE LET e == Get(entity)
         IN IF e.type = "test"
            THEN IF e.outcome.throws
                 THEN Throw(e.outcome.msg)
                 ELSE Ok(<<[name |-> e.name,
                            path |-> parentPath \o <<e.name>>,
                            result |-> Some(e.outcome.res)]>>)
            ELSE IF e.type = "suite" \/ e.type = "module"
            THEN FlatMapChildren(ChildrenOf(e), parentPath \o <<e.name>>)
            ELSE Ok(<<>>)

\* lines 9-39
extractTestCases(entity, parentPath) ==
    IF ~IsDefined(entity) THEN Ok(<<>>)
    ELSE LET e == Get(entity)
         IN IF e.type = "test"
            THEN IF e.outcome.throws
                 THEN Throw(e.outcome.msg)
                 ELSE Ok(<<[name |-> e.name,
                            path |-> parentPath \o <<e.name>>,
                            result |-> Some(e.outcome.res)]>>)
            ELSE IF e.type = "suite" \/ e.type = "module"
            THEN LET currentPath ==
                         parentPath \o <<IF e.type = "suite" THEN e.name ELSE e.moduleId>>
                 IN FlatMapChildren(ChildrenOf(e), currentPath)
            ELSE Ok(<<>>)

-----------------------------------------------------------------------------
(* Strings *)

Min(a, b) == IF a < b THEN a ELSE b

\* a + b for strings held as their lines: the last line of a runs on into the
\* first line of b
StrCat(a, b) == SubSeq(a, 1, Len(a) - 1) \o <<a[Len(a)] \o b[1]>> \o Tail(b)

\* Array.prototype.join("\n") over strings held as their lines
JoinLines(chunks) == IF chunks = <<>> THEN <<"">> ELSE ConcatAll(chunks)

\* Array.prototype.join(sep) over strings without line feeds
RECURSIVE JoinWith(_, _)
JoinWith(parts, sep) ==
    IF parts = <<>> THEN ""
    ELSE IF Len(parts) = 1 THEN parts[1]
    ELSE parts[1] \o sep \o JoinWith(Tail(parts), sep)

\* String.prototype.repeat
RECURSIVE Repeat(_, _)
Repeat(s, n) == IF n = 0 THEN "" ELSE s \o Repeat(s, n - 1)

\* an optional string that is neither undefined nor empty
Truthy(o) == IsDefined(o) /\ Get(o) # <<"">>

-----------------------------------------------------------------------------
(* Map: the entries in insertion order *)

MapHas(map, k) == \E i \in 1..Len(map) : map[i].key = k

\* MapPush with a new key put in front of the entries instead of behind them
MapPush_NewestFirst(map, k, item) ==
    LET m == IF MapHas(map, k) THEN map ELSE <<[key |-> k, items |-> <<>>]>> \o map
    IN [i \in 1..Len(m) |->
           IF m[i].key = k THEN [key |-> k, items |-> Append(m[i].items, item)]
           ELSE m[i]]

\* map.set(k, [item]) whether the key is there or not
MapPush_Replaces(map, k, item) ==
    LET m == IF MapHas(map, k) THEN map ELSE Append(map, [key |-> k, items |-> <<>>])
    IN [i \in 1..Len(m) |->
           IF m[i].key = k THEN [key |-> k, items |-> <<item>>] ELSE m[i]]

\* if (!map.has(k)) map.set(k, []); map.get(k).push(item)
MapPush(map, k, item) ==
    LET m == IF MapHas(map, k) THEN map ELSE Append(map, [key |-> k, items |-> <<>>])
    IN [i \in 1..Len(m) |->
           IF m[i].key = k THEN [key |-> k, items |-> Append(m[i].items, item)]
           ELSE m[i]]

\* items.forEach(item => push item under its key), keys[i] being the key of items[i]
RECURSIVE GroupFrom(_, _, _)
GroupFrom(items, keys, map) ==
    IF items = <<>> THEN map
    ELSE GroupFrom(Tail(items), Tail(keys), MapPush(map, Head(keys), Head(items)))

-----------------------------------------------------------------------------
(* formatTestResults.js *)

CheckMark == "v"            \* U+2713
CrossMark == "x"            \* U+2717
TestUnderlineMark == "~"    \* U+203E

HasResult(t) == IsDefined(t.result)
StateIs(t, st) == Get(t.result).state = st

\* const [filePath] = test.path
FilePathOf(t) == IF Len(t.path) >= 1 THEN t.path[1] ELSE Absent

\* the counts of lines 406-411 with total taken as the sum of the three counts
TestCounts_TotalOfNamed(r) ==
    LET results == SelectSeq(r, HasResult)
        Is(st) == Len(SelectSeq(results, LAMBDA t : StateIs(t, st)))
    IN [passed |-> Is("passed"), failed |-> Is("failed"), skipped |-> Is("skipped"),
        total |-> Is("passed") + Is("failed") + Is("skipped")]

\* the counts of lines 406-411
TestCounts(r) ==
    LET results == SelectSeq(r, HasResult)
        Is(st) == Len(SelectSeq(results, LAMBDA t : StateIs(t, st)))
    IN [passed |-> Is("passed"), failed |-> Is("failed"), skipped |-> Is("skipped"),
        total |-> Len(results)]

\* lines 413-420
TestsByFile(r) ==
    LET results == SelectSeq(r, HasResult)
    IN GroupFrom(results, [i \in 1..Len(results) |-> FilePathOf(results[i])], <<>>)

\* lines 442-453: what one error of result.errors adds to output
ErrorChunks(error) ==
    (IF Truthy(error.message)
     THEN <<StrCat(<<"  Error: ">>, Get(error.message))>> ELSE <<>>)
    \o
    (IF Truthy(error.diff)
     THEN <<<<"  Diff:">>,
            [i \in 1..Len(Get(error.diff)) |-> "    " \o Get(error.diff)[i]]>>
     ELSE <<>>)

\* lines 438-454 with the file segment kept in the path
FailureChunks_FullPath(test) ==
    LET testPath == JoinWith(test.path, " > ")
        errors == Get(test.result).errors
    IN <<<<"", CrossMark \o " " \o testPath>>>>
       \o (IF IsDefined(errors)
           THEN ConcatAll([i \in 1..Len(Get(errors)) |-> ErrorChunks(Get(errors)[i])])
           ELSE <<>>)

\* lines 438-454: what one failing test adds to output
FailureChunks(test) ==
    LET testPath == JoinWith(Tail(test.path), " > ")
        errors == Get(test.result).errors
    IN <<<<"", CrossMark \o " " \o testPath>>>>
       \o (IF IsDefined(errors)
           THEN ConcatAll([i \in 1..Len(Get(errors)) |-> ErrorChunks(Get(errors)[i])])
           ELSE <<>>)

\* lines 432-457 with the test on fileFailures left out
FileChunks_Always(group) ==
    LET filePath == group.key
        fileFailures == SelectSeq(group.items, LAMBDA t : StateIs(t, "failed"))
    IN <<<<"File: " \o filePath>>,
         <<Repeat(TestUnderlineMark, Min(Len(filePath), 80))>>>>
       \o ConcatAll([i \in 1..Len(fileFailures) |-> FailureChunks(fileFailures[i])])
       \o <<<<"">>>>

\* lines 432-457 with every test that did not pass taken as a failure
FileChunks_NotPassed(group) ==
    LET filePath == group.key
        fileFailures == SelectSeq(group.items, LAMBDA t : ~StateIs(t, "passed"))
    IN IF Len(fileFailures) > 0
       THEN <<<<"File: " \o filePath>>,
              <<Repeat(TestUnderlineMark, Min(Len(filePath), 80))>>>>
            \o ConcatAll([i \in 1..Len(fileFailures) |-> FailureChunks(fileFailures[i])])
            \o <<<<"">>>>
       ELSE <<>>

\* lines 432-457: what one entry of testsByFile adds to output
FileChunks(group) ==
    LET filePath == group.key
        fileFailures == SelectSeq(group.items, LAMBDA t : StateIs(t, "failed"))
    IN IF Len(fileFailures) > 0
       THEN <<<<"File: " \o filePath>>,
              <<Repeat(TestUnderlineMark, Min(Len(filePath), 80))>>>>
            \o ConcatAll([i \in 1..Len(fileFailures) |-> FailureChunks(fileFailures[i])])
            \o <<<<"">>>>
       ELSE <<>>

\* lines 404-459 with the Passed line written only for a positive count
formatTestResults_PassedIfAny(r) ==
    LET c == TestCounts(r)
        testsByFile == TestsByFile(r)
        header ==
            << <<"Test Run Summary">>,
               <<"================">>,
               <<"Total Tests: " \o ToString(c.total)>> >>
            \o (IF c.passed > 0
                THEN << <<CheckMark \o " Passed: " \o ToString(c.passed)>> >> ELSE <<>>)
            \o (IF c.failed > 0
                THEN << <<CrossMark \o " Failed: " \o ToString(c.failed)>> >> ELSE <<>>)
            \o (IF c.skipped > 0
                THEN << <<"- Skipped: " \o ToString(c.skipped)>> >> ELSE <<>>)
            \o << <<"">> >>
    IN JoinLines(header
                 \o ConcatAll([i \in 1..Len(testsByFile) |-> FileChunks(testsByFile[i])]))

\* lines 404-459: the returned string, as its lines
formatTestResults(r) ==
    LET c == TestCounts(r)
        testsByFile == TestsByFile(r)
        header ==
            << <<"Test Run Summary">>,
               <<"================">>,
               <<"Total Tests: " \o ToString(c.total)>>,
               <<CheckMark \o " Passed: " \o ToString(c.passed)>> >>
            \o (IF c.failed > 0
                THEN << <<CrossMark \o " Failed: " \o ToString(c.failed)>> >> ELSE <<>>)
            \o (IF c.skipped > 0
                THEN << <<"- Skipped: " \o ToString(c.skipped)>> >> ELSE <<>>)
            \o << <<"">> >>
    IN JoinLines(header
                 \o ConcatAll([i \in 1..Len(testsByFile) |-> FileChunks(testsByFile[i])]))

-----------------------------------------------------------------------------
(* typeCheck.ts: formatTypeErrors *)

TypeUnderlineMark == "aE~"  \* the three characters U+00E2 U+20AC U+00BE of line 92

NoTypeErrors == <<"No type errors found!">>

\* line 78 without the plural test
FoundLine_AlwaysPlural(n) ==
    "Found " \o ToString(n) \o " type error" \o "s" \o ":"

\* line 78
FoundLine(n) ==
    "Found " \o ToString(n) \o " type error" \o (IF n = 1 THEN "" ELSE "s") \o ":"

\* lines 82-88
ErrorsByFile(errors) ==
    GroupFrom(errors, [i \in 1..Len(errors) |-> errors[i].file], <<>>)

\* line 95: one record
ErrorChunk(error) ==
    StrCat(<<ToString(error.line) \o ":" \o ToString(error.column)
               \o " - error TS" \o ToString(error.code) \o ": ">>,
           error.message)

\* lines 90-98: what one entry of errorsByFile adds to output
TypeFileChunks(group) ==
    <<<<"File: " \o group.key>>,
      <<Repeat(TypeUnderlineMark, Min(Len(group.key), 80))>>>>
    \o [i \in 1..Len(group.items) |-> ErrorChunk(group.items[i])]
    \o <<<<"">>>>

\* formatTypeErrors with the test of lines 73-75 left out
formatTypeErrors_NoSentinel(errors) ==
    LET errorsByFile == ErrorsByFile(errors)
    IN JoinLines(<< <<FoundLine(Len(errors))>>, <<"">> >>
                 \o ConcatAll([i \in 1..Len(errorsByFile) |->
                                  TypeFileChunks(errorsByFile[i])]))

\* lines 72-101: the returned string, as its lines
formatTypeErrors(errors) ==
    IF Len(errors) = 0 THEN NoTypeErrors
    ELSE LET errorsByFile == ErrorsByFile(errors)
         IN JoinLines(<< <<FoundLine(Len(errors))>>, <<"">> >>
                      \o ConcatAll([i \in 1..Len(errorsByFile) |->
                                       TypeFileChunks(errorsByFile[i])]))

-----------------------------------------------------------------------------
(* Inputs of the formatters *)

\* sequences over S of length at most n
SeqsUpTo(S, n) == UNION {[1..k -> S] : k \in 0..n}

FileB == "b.test.ts"
FileA == "a.test.ts"
\* a module identifier of more than 80 characters
FileLong ==
    "packages/some-quite-long-package-name/src/components/forms/__tests__/registration-form.test.ts"

Result(state, errors) == [state |-> state, errors |-> errors]
TestError(message, diff) == [message |-> message, diff |-> diff]
Entity(path, result) == [name |-> path[Len(path)], path |-> path, result |-> result]

OneMessage == Some(<<TestError(Some(<<"expected 1 to be 2">>), Undefined)>>)
MessageAndDiff ==
    Some(<<TestError(Some(<<"expected values to match">>),
                     Some(<<"- Expected", "+ Received">>)),
           TestError(Undefined, Some(<<"">>))>>)

\* the entities of one file: passed, failed (with and without errors), skipped,
\* still pending, and a container that leaked into the sequence
EntitiesOf(file) ==
    {Entity(<<file, "suite1", "case1">>, Some(Result("passed", Undefined))),
     Entity(<<file, "suite1", "case2">>, Some(Result("failed", OneMessage))),
     Entity(<<file, "case3">>, Some(Result("failed", Undefined))),
     Entity(<<file, "case4">>, Some(Result("skipped", Undefined))),
     Entity(<<file, "case5">>, Some(Result("pending", Undefined))),
     Entity(<<file, "suite1">>, Undefined)}

TestEntities ==
    EntitiesOf(FileB) \cup EntitiesOf(FileA)
    \cup {Entity(<<FileB, "suite2", "case6">>, Some(Result("failed", MessageAndDiff))),
          Entity(<<FileLong, "case7">>, Some(Result("failed", Some(<<>>))))}

TestInputs == SeqsUpTo(TestEntities, MaxResults)

TypeError(file, line, column, code, message) ==
    [file |-> file, line |-> line, column |-> column, code |-> code, message |-> message]

SrcB == "src/b.ts"
SrcA == "src/a.ts"

TypeErrors ==
    {TypeError(SrcB, 1, 1, 2322, <<"Type 'string' is not assignable to type 'number'.">>),
     TypeError(SrcB, 12, 5, 2345,
               <<"Argument of type 'A' is not assignable to parameter of type 'B'.",
                 "  Property 'x' is missing in type 'A'.">>),
     TypeError(SrcA, 3, 7, 2304, <<"Cannot find name 'foo'.">>),
     TypeError(SrcA, 3, 9, 2304, <<"Cannot find name 'bar'.">>),
     TypeError("", 0, 0, 6053, <<"File 'x.ts' not found.">>),
     TypeError(FileLong, 2, 2, 7006, <<"Parameter 'e' implicitly has an 'any' type.">>)}

TypeInputs == SeqsUpTo(TypeErrors, MaxErrors)

-----------------------------------------------------------------------------
(* Specifications of single calls of the pure functions *)

\* no request is ever received
ServerOff == calls = <<>>

FlattenOff ==
    fPc = "off" /\ fEntity = Undefined /\ fParentPath = <<>> /\ fRet = Ok(<<>>)
FormatTestsOff == tPc = "off" /\ tInput = <<>> /\ tOut = <<>>
FormatTypesOff == ePc = "off" /\ eInput = <<>> /\ eOut = <<>>

InitFlatten ==
    /\ fPc = "call"
    /\ fEntity \in Roots
    /\ fParentPath \in Prefixes
    /\ fRet = Ok(<<>>)
    /\ FormatTestsOff /\ FormatTypesOff /\ ServerOff

\* extractTestCases(fEntity, fParentPath)
Flatten ==
    /\ fPc = "call"
    /\ fRet' = extractTestCases(fEntity, fParentPath)
    /\ fPc' = "returned"
    /\ UNCHANGED <<fEntity, fParentPath, tvars, evars, calls>>

NextFlatten == Flatten

SpecFlatten == InitFlatten /\ [][NextFlatten]_vars

\* one call of one of the two formatters
InitFormat ==
    /\ FlattenOff /\ ServerOff
    /\ \/ /\ tPc = "call" /\ tInput \in TestInputs /\ tOut = <<>>
          /\ FormatTypesOff
       \/ /\ ePc = "call" /\ eInput \in TypeInputs /\ eOut = <<>>
          /\ FormatTestsOff

\* formatTestResults(tInput)
FormatTests ==
    /\ tPc = "call"
    /\ tOut' = formatTestResults(tInput)
    /\ tPc' = "returned"
    /\ UNCHANGED <<tInput, fvars, evars, calls>>

\* formatTypeErrors(eInput)
FormatTypes ==
    /\ ePc = "call"
    /\ eOut' = formatTypeErrors(eInput)
    /\ ePc' = "returned"
    /\ UNCHANGED <<eInput, fvars, tvars, calls>>

NextFormat == FormatTests \/ FormatTypes

SpecFormat == InitFormat /\ [][NextFormat]_vars

\* two calls of each formatter on the same sequence, in any order
OneTestInput ==
    <<Entity(<<FileB, "suite1", "case2">>, Some(Result("failed", OneMessage)))>>
OneTypeInput ==
    <<TypeError(SrcB, 1, 1, 2322, <<"Type 'string' is not assignable to type 'number'.">>)>>

InitReformat ==
    /\ FlattenOff /\ ServerOff
    /\ tPc = "call" /\ tOut = <<>>
    /\ ePc = "call" /\ eOut = <<>>
    /\ \/ tInput \in TestInputs /\ eInput = OneTypeInput
       \/ tInput = OneTestInput /\ eInput \in TypeInputs

\* formatTestResults with output declared at module level, so that a second
\* call pushes after the lines of the first
FormatTestsAgain_KeepsOutput ==
    /\ tPc = "returned"
    /\ tOut' = tOut \o formatTestResults(tInput)
    /\ tPc' = "again"
    /\ UNCHANGED <<tInput, fvars, evars, calls>>

\* formatTestResults(tInput), a second time
FormatTestsAgain ==
    /\ tPc = "returned"
    /\ tOut' = formatTestResults(tInput)
    /\ tPc' = "again"
    /\ UNCHANGED <<tInput, fvars, evars, calls>>

\* formatTypeErrors(eInput), a second time
FormatTypesAgain ==
    /\ ePc = "returned"
    /\ eOut' = formatTypeErrors(eInput)
    /\ ePc' = "again"
    /\ UNCHANGED <<eInput, fvars, tvars, calls>>

NextReformat == FormatTests \/ FormatTestsAgain \/ FormatTypes \/ FormatTypesAgain

SpecReformat == InitReformat /\ [][NextReformat]_vars

-----------------------------------------------------------------------------
(* typeCheck.ts: runTypeCheck *)

\* const projectDir = path.resolve(args[0]); written once, at startup
ProjectDir == "/work/app"

RelPaths == {SrcA, SrcB}

\* path.relative(from, to) for the files below from
PathRelative(from, to) == CHOOSE r \in RelPaths : from \o "/" \o r = to

\* ts.flattenDiagnosticMessageText(messageText, "\n"): the text, then each
\* nested message on a line of its own, indented
FlattenDiagnosticMessageText(m) ==
    <<m.text>> \o [i \in 1..Len(m.next) |-> "  " \o m.next[i]]

Diagnostic(file, code, text, next) ==
    [file |-> file, code |-> code, messageText |-> [text |-> text, next |-> next]]
SourcePos(rel, line, character) ==
    Some([fileName |-> ProjectDir \o "/" \o rel, line |-> line, character |-> character])

\* lines 48-69 with the engine's 0-based position copied as it is
RecordOf_ZeroBased(projectPath, diagnostic) ==
    LET hasFile == IsDefined(diagnostic.file)
    IN [file |-> IF hasFile
                 THEN PathRelative(projectPath, Get(diagnostic.file).fileName) ELSE "",
        line |-> IF hasFile THEN Get(diagnostic.file).line ELSE 0,
        column |-> IF hasFile THEN Get(diagnostic.file).character ELSE 0,
        code |-> diagnostic.code,
        message |-> FlattenDiagnosticMessageText(diagnostic.messageText)]

\* lines 48-69: the record of one diagnostic
RecordOf(projectPath, diagnostic) ==
    LET hasFile == IsDefined(diagnostic.file)
    IN [file |-> IF hasFile
                 THEN PathRelative(projectPath, Get(diagnostic.file).fileName) ELSE "",
        line |-> IF hasFile THEN Get(diagnostic.file).line + 1 ELSE 0,
        column |-> IF hasFile THEN Get(diagnostic.file).character + 1 ELSE 0,
        code |-> diagnostic.code,
        message |-> FlattenDiagnosticMessageText(diagnostic.messageText)]

\* the project as the type-check engine sees it: what findConfigFile,
\* readConfigFile, parseJsonConfigFileContent and getPreEmitDiagnostics return
World(configPath, readError, optionErrors, fileNames, diagnostics) ==
    [configPath |-> configPath, readError |-> readError,
     optionErrors |-> optionErrors, fileNames |-> fileNames,
     diagnostics |-> diagnostics]

\* lines 12-70 with diagnostics treated as a failure of the check
runTypeCheck_FailsOnDiagnostics(projectPath, world) ==
    IF ~IsDefined(world.configPath)
    THEN Throw(<<"Could not find a tsconfig.json file">>)
    ELSE IF IsDefined(world.readError)
    THEN Throw(<<"Error reading tsconfig.json: " \o Get(world.readError)>>)
    ELSE IF Len(world.optionErrors) > 0
    THEN Throw(StrCat(<<"Error parsing tsconfig.json: ">>, world.optionErrors))
    ELSE IF Len(world.diagnostics) > 0
    THEN Throw(<<"Type errors found">>)
    ELSE Ok(<<>>)

\* lines 12-70 with the test of line 37 made before the test of line 26
runTypeCheck_OptionsFirst(projectPath, world) ==
    IF ~IsDefined(world.configPath)
    THEN Throw(<<"Could not find a tsconfig.json file">>)
    ELSE IF Len(world.optionErrors) > 0
    THEN Throw(StrCat(<<"Error parsing tsconfig.json: ">>, world.optionErrors))
    ELSE IF IsDefined(world.readError)
    THEN Throw(<<"Error reading tsconfig.json: " \o Get(world.readError)>>)
    ELSE Ok([i \in 1..Len(world.diagnostics) |->
                RecordOf(projectPath, world.diagnostics[i])])

\* lines 12-70
runTypeCheck(projectPath, world) ==
    IF ~IsDefined(world.configPath)
    THEN Throw(<<"Could not find a tsconfig.json file">>)
    ELSE IF IsDefined(world.readError)
    THEN Throw(<<"Error reading tsconfig.json: " \o Get(world.readError)>>)
    ELSE IF Len(world.optionErrors) > 0
    THEN Throw(StrCat(<<"Error parsing tsconfig.json: ">>, world.optionErrors))
    ELSE Ok([i \in 1..Len(world.diagnostics) |->
                RecordOf(projectPath, world.diagnostics[i])])

\* lines 14-45: the calls runTypeCheck makes to the engine, in order; a throw
\* ends them
runTypeCheckCalls(projectPath, world) ==
    <<"findConfigFile">> \o
    (IF ~IsDefined(world.configPath) THEN <<>>
     ELSE <<"readConfigFile">> \o
          (IF IsDefined(world.readError) THEN <<>>
           ELSE <<"parseJsonConfigFileContent">> \o
                (IF Len(world.optionErrors) > 0 THEN <<>>
                 ELSE <<"createProgram", "getPreEmitDiagnostics">>)))

\* line 44: the root files of the program are those of the configuration
ProgramFiles(world) == world.fileNames

ConfigPath == Some(ProjectDir \o "/tsconfig.json")
ProjectFiles == <<ProjectDir \o "/" \o SrcB, ProjectDir \o "/" \o SrcA>>
ParseError == "Unexpected token } in JSON"
OptionErrors == <<"Unknown compiler option 'strictt'.", "Option 'jsx' needs a value.">>

DiagB == Diagnostic(SourcePos(SrcB, 0, 0), 2322,
                    "Type 'string' is not assignable to type 'number'.", <<>>)
DiagA == Diagnostic(SourcePos(SrcA, 2, 6), 2345,
                    "Argument of type 'A' is not assignable to parameter of type 'B'.",
                    <<"Property 'x' is missing in type 'A'.">>)
DiagGlobal == Diagnostic(Undefined, 6053, "File 'x.ts' not found.", <<>>)

\* what the engine would answer at each step; a project can have several
\* problems at once
TypeWorlds ==
    {World(Undefined, Undefined, <<>>, <<>>, <<>>),
     World(Undefined, Some(ParseError), OptionErrors, <<>>, <<>>),
     World(ConfigPath, Some(ParseError), <<>>, <<>>, <<>>),
     World(ConfigPath, Some(ParseError), OptionErrors, ProjectFiles, <<DiagB>>),
     World(ConfigPath, Undefined, OptionErrors, ProjectFiles, <<DiagB>>),
     World(ConfigPath, Undefined, <<>>, ProjectFiles, <<>>),
     World(ConfigPath, Undefined, <<>>, ProjectFiles, <<DiagB>>),
     World(ConfigPath, Undefined, <<>>, ProjectFiles, <<DiagB, DiagGlobal, DiagA>>)}

-----------------------------------------------------------------------------
(* index.js: the argument schemas *)

Sel(kind, items) == [kind |-> kind, items |-> items]
SelUndefined == Sel("undefined", <<>>)
SelNull == Sel("null", <<>>)
SelString(str) == Sel("string", <<str>>)
SelArray(items) == Sel("array", items)
SelNumber == Sel("number", <<>>)

Selectors ==
    {SelUndefined, SelNull, SelString(""), SelString(FileA), SelString(SrcA),
     SelArray(<<>>), SelArray(<<FileA, FileB>>), SelNumber}

\* request.params.arguments: absent, or an object with the key of one tool
ArgsUniverse ==
    {Undefined}
    \cup {Some([testFiles |-> v, files |-> SelUndefined]) : v \in Selectors}
    \cup {Some([testFiles |-> SelUndefined, files |-> v]) :
             v \in Selectors \ {SelUndefined}}

\* lines 25-29: if (!files) return undefined; Array.isArray(files) ? files : [files]
TransformSelector(v) ==
    IF v.kind \in {"undefined", "null"} \/ v = SelString("") THEN Undefined
    ELSE Some(v.items)

\* safeParse of a schema that takes a selector of any type
SafeParse_AnyType(key, args) ==
    IF ~IsDefined(args) THEN [success |-> FALSE, data |-> Undefined]
    ELSE LET v == IF key = "testFiles" THEN Get(args).testFiles ELSE Get(args).files
         IN [success |-> TRUE, data |-> TransformSelector(v)]

\* safeParse of z.object({key: union([string, array(string), null, undefined])})
SafeParse(key, args) ==
    IF ~IsDefined(args) THEN [success |-> FALSE, data |-> Undefined]
    ELSE LET v == IF key = "testFiles" THEN Get(args).testFiles ELSE Get(args).files
         IN IF v.kind \in {"string", "array", "null", "undefined"}
            THEN [success |-> TRUE, data |-> TransformSelector(v)]
            ELSE [success |-> FALSE, data |-> Undefined]

\* the text of a ZodError, which spans several lines
ZodIssues == <<"[", "  { code: invalid_union }", "]">>

-----------------------------------------------------------------------------
(* index.js: the tools/call handler *)

ToolNames == {"run_tests", "type_check", "watch_tests"}
CallIds == {"c1", "c2"}

\* lines 105-112 with isError set for a report that shows a Failed line
SuccessPayload_FlagsFailures(text) ==
    [isError |-> \E n \in 1..Len(text) : CrossMark \o " Failed: " \o ToString(n) \in
                                             {text[i] : i \in 1..Len(text)},
     content |-> <<[type |-> "text", text |-> text]>>]

\* lines 105-112 and 122-129; isError is left out of the object, which reads
\* as false
SuccessPayload(text) ==
    [isError |-> FALSE, content |-> <<[type |-> "text", text |-> text]>>]

\* lines 139-145 without the flag
ErrorPayload_NoFlag(errorMessage) ==
    [isError |-> FALSE,
     content |-> <<[type |-> "text", text |-> StrCat(<<"Error: ">>, errorMessage)]>>]

\* lines 139-145
ErrorPayload(errorMessage) ==
    [isError |-> TRUE,
     content |-> <<[type |-> "text", text |-> StrCat(<<"Error: ">>, errorMessage)]>>]

\* the messages of the rejections of startVitest, vitest.start and vitest.close
StartVitestError == <<"failed to load config from vitest.config.ts">>
VitestRunError == <<"No test files found">>
VitestCloseError == <<"close timed out">>
CaseError == <<"Cannot read properties of undefined">>

\* the modules the engine reports
ModB ==
    TestModule(FileB, Some(<<Some(TestSuite("suite1", Some(<<
        Some(TestCase("case1", Returns(Result("passed", Undefined)))),
        Some(TestCase("case2", Returns(Result("failed", OneMessage))))>>)))>>))
ModA ==
    TestModule(FileA, Some(<<
        Some(TestCase("case3", Returns(Result("passed", Undefined))))>>))
ModThrows ==
    TestModule(FileB, Some(<<
        Some(TestCase("case1", Returns(Result("passed", Undefined)))),
        Some(TestCase("case8", Throws(CaseError)))>>))

\* vitest.state.getFiles() mapped through getReportedEntity
FileLists ==
    {<<>>, <<Some(ModA)>>, <<Some(ModB), Some(ModA)>>,
     <<Some(ModA), Some(ModThrows)>>, <<Undefined, Some(ModB)>>}

\* lines 97-102 with the loop left after the first file
CollectResults_FirstFile(files) ==
    IF files = <<>> THEN Ok(<<>>) ELSE extractTestCases(Head(files), <<>>)

\* lines 97-102: the loop over the files; an exception of extractTestCases
\* leaves the loop
RECURSIVE CollectResults(_)
CollectResults(files) ==
    IF files = <<>> THEN Ok(<<>>)
    ELSE LET fileResults == extractTestCases(Head(files), <<>>)
         IN IF ~fileResults.ok THEN fileResults
            ELSE LET rest == CollectResults(Tail(files))
                 IN IF ~rest.ok THEN rest ELSE Ok(fileResults.val \o rest.val)

\* lines 98-101: the calls of extractTestCases the loop makes; the one that
\* throws is the last
RECURSIVE ExtractCalls(_)
ExtractCalls(files) ==
    IF files = <<>> THEN <<>>
    ELSE <<"extractTestCases">> \o
         (IF extractTestCases(Head(files), <<>>).ok THEN ExtractCalls(Tail(files))
          ELSE <<>>)

\* an invocation of the handler: its position, its locals, in trace the
\* calls it has made so far and in answers how the awaited ones settled
IdleCall ==
    [pc |-> "idle", name |-> "", args |-> Undefined, include |-> Undefined,
     vitest |-> "none", files |-> Undefined, world |-> Undefined,
     report |-> <<>>, payload |-> Undefined, trace |-> <<>>, answers |-> <<>>]

Did(call, events) == [call EXCEPT !.trace = @ \o events]
Heard(call, answer) == [call EXCEPT !.answers = Append(@, answer)]

\* the handler's promise settles with this payload
Return(c, call, payload) ==
    calls' = [calls EXCEPT ![c] = [call EXCEPT !.pc = "done", !.payload = Some(payload)]]

\* an exception leaves the handler instead of being caught
Caught_Rethrows(c, call, errorMessage) ==
    calls' = [calls EXCEPT ![c] = [call EXCEPT !.pc = "rejected"]]

\* lines 71 and 139-145: an exception thrown anywhere in the handler is caught
\* and answered with the error payload
Caught(c, call, errorMessage) == Return(c, call, ErrorPayload(errorMessage))

Goto(c, call, pc) == calls' = [calls EXCEPT ![c] = [call EXCEPT !.pc = pc]]

\* lines 72-89: a run_tests request up to the call of startVitest
ReceiveRunTests(c) ==
    /\ calls[c].pc = "idle"
    /\ \E args \in ArgsUniverse :
          LET call == [calls[c] EXCEPT !.name = "run_tests", !.args = args]
              parsed == SafeParse("testFiles", args)
          IN IF ~parsed.success
             THEN Caught(c, call, StrCat(<<"Invalid arguments for run_tests: ">>, ZodIssues))
             \* line 85: every array is truthy, the empty one too
             ELSE Goto(c, Did([call EXCEPT !.include = parsed.data], <<"startVitest">>),
                       "await_startVitest")
    /\ UNCHANGED <<fvars, tvars, evars>>

\* lines 89-93: startVitest settles
StartVitestSettles(c) ==
    /\ calls[c].pc = "await_startVitest"
    /\ \/ Caught(c, Heard(calls[c], "rejects"), StartVitestError)
       \/ Caught(c, Heard(calls[c], "null"), <<"Failed to start Vitest">>)
       \/ Goto(c, Did(Heard([calls[c] EXCEPT !.vitest = "open"], "instance"),
                       <<"vitest.start">>),
               "await_start")
    /\ UNCHANGED <<fvars, tvars, evars>>

\* lines 93-95: vitest.start() settles
VitestStartSettles(c) ==
    /\ calls[c].pc = "await_start"
    /\ \/ Caught(c, Heard(calls[c], "rejects"), VitestRunError)
       \/ Goto(c, Did(Heard(calls[c], "resolves"), <<"setTimeout">>), "await_timer")
    /\ UNCHANGED <<fvars, tvars, evars>>

\* lines 96-104 with allTestResults declared at module level, so that it
\* still holds what the other invocation has pushed
TimerFires_SharedResults(c) ==
    /\ calls[c].pc = "await_timer"
    /\ \E files \in FileLists :
          LET call == Did([calls[c] EXCEPT !.files = Some(files)],
                          <<"getFiles">> \o ExtractCalls(files))
              d == CHOOSE other \in CallIds : other # c
              pushed == IF IsDefined(calls[d].files)
                        THEN CollectResults(Get(calls[d].files)) ELSE Ok(<<>>)
              allTestResults == CollectResults(files)
          IN IF ~allTestResults.ok
             THEN Caught(c, call, allTestResults.err)
             ELSE Goto(c, Did([call EXCEPT !.report =
                                  formatTestResults(pushed.val \o allTestResults.val)],
                              <<"formatTestResults", "vitest.close">>),
                       "await_close")
    /\ UNCHANGED <<fvars, tvars, evars>>

\* lines 96-104: the timer fires; the files are read, flattened and formatted
\* and vitest.close() is called
TimerFires(c) ==
    /\ calls[c].pc = "await_timer"
    /\ \E files \in FileLists :
          LET call == Did([calls[c] EXCEPT !.files = Some(files)],
                          <<"getFiles">> \o ExtractCalls(files))
              allTestResults == CollectResults(files)
          IN IF ~allTestResults.ok
             THEN Caught(c, call, allTestResults.err)
             ELSE Goto(c, Did([call EXCEPT !.report = formatTestResults(allTestResults.val)],
                              <<"formatTestResults", "vitest.close">>),
                       "await_close")
    /\ UNCHANGED <<fvars, tvars, evars>>

\* lines 104-112: vitest.close() settles
CloseSettles(c) ==
    /\ calls[c].pc = "await_close"
    /\ \/ Caught(c, Heard(calls[c], "rejects"), VitestCloseError)
       \/ Return(c, Heard([calls[c] EXCEPT !.vitest = "closed"], "resolves"),
                 SuccessPayload(calls[c].report))
    /\ UNCHANGED <<fvars, tvars, evars>>

\* lines 114-134: a type_check request, which runs without suspending
ReceiveTypeCheck(c) ==
    /\ calls[c].pc = "idle"
    /\ \E args \in ArgsUniverse, world \in TypeWorlds :
          LET call == [calls[c] EXCEPT !.name = "type_check", !.args = args]
              parsed == SafeParse("files", args)
          IN IF ~parsed.success
             THEN Caught(c, call, StrCat(<<"Invalid arguments for type_check: ">>, ZodIssues))
             ELSE LET errors == runTypeCheck(ProjectDir, world)
                      ran == Did([call EXCEPT !.world = Some(world)],
                                 <<"runTypeCheck">> \o runTypeCheckCalls(ProjectDir, world))
                  IN IF errors.ok
                     THEN Return(c, Did([ran EXCEPT !.report = formatTypeErrors(errors.val)],
                                        <<"formatTypeErrors">>),
                                 SuccessPayload(formatTypeErrors(errors.val)))
                     ELSE Caught(c, ran, StrCat(<<"Type checking failed: ">>, errors.err))
    /\ UNCHANGED <<fvars, tvars, evars>>

\* lines 135-136 with a message that leaves the name out
ReceiveUnknown_Unnamed(c) ==
    /\ calls[c].pc = "idle"
    /\ \E name \in ToolNames \ {"run_tests", "type_check"}, args \in ArgsUniverse :
          Caught(c, [calls[c] EXCEPT !.name = name, !.args = args], <<"Unknown tool">>)
    /\ UNCHANGED <<fvars, tvars, evars>>

\* lines 135-136: a request for any other tool
ReceiveUnknown(c) ==
    /\ calls[c].pc = "idle"
    /\ \E name \in ToolNames \ {"run_tests", "type_check"}, args \in ArgsUniverse :
          Caught(c, [calls[c] EXCEPT !.name = name, !.args = args],
                 <<"Unknown tool: " \o name>>)
    /\ UNCHANGED <<fvars, tvars, evars>>

ServerIdle == calls = [c \in CallIds |-> IdleCall]

Init == FlattenOff /\ FormatTestsOff /\ FormatTypesOff /\ ServerIdle

Next ==
    \E c \in CallIds :
        \/ ReceiveRunTests(c)
        \/ StartVitestSettles(c)
        \/ VitestStartSettles(c)
        \/ TimerFires(c)
        \/ CloseSettles(c)
        \/ ReceiveTypeCheck(c)
        \/ ReceiveUnknown(c)

Spec == Init /\ [][Next]_vars

-----------------------------------------------------------------------------
(* The tree seen from outside the traversal: positions *)

\* the node at a position (the child indexes from the root down)
RECURSIVE NodeAt(_, _)
NodeAt(n, pos) ==
    IF pos = <<>> THEN n ELSE NodeAt(Get(ChildrenOf(n)[Head(pos)]), Tail(pos))

RECURSIVE PositionsOf(_)
PositionsOf(n) ==
    {<<>>} \cup UNION {{<<i>> \o p : p \in PositionsOf(Get(ChildrenOf(n)[i]))} :
                         i \in 1..Len(ChildrenOf(n))}

\* every node strictly above pos is a suite or a module
ThroughContainers(n, pos) ==
    \A k \in 0..(Len(pos) - 1) : IsContainer(NodeAt(n, SubSeq(pos, 1, k)))

\* the positions of the case nodes reachable from the root through containers
CasePositions(root) ==
    IF ~IsDefined(root) THEN {}
    ELSE {p \in PositionsOf(Get(root)) :
             NodeAt(Get(root), p).type = "test" /\ ThroughContainers(Get(root), p)}

\* p comes before q in depth-first, left-to-right order
RECURSIVE Before(_, _)
Before(p, q) ==
    IF p = <<>> THEN q # <<>>
    ELSE IF q = <<>> THEN FALSE
    ELSE IF Head(p) # Head(q) THEN Head(p) < Head(q)
    ELSE Before(Tail(p), Tail(q))

RECURSIVE InOrder(_)
InOrder(S) ==
    IF S = {} THEN <<>>
    ELSE LET p == CHOOSE x \in S : \A y \in S : x = y \/ Before(x, y)
         IN <<p>> \o InOrder(S \ {p})

\* the display identifiers of the nodes strictly above pos, from the root down
AncestorIds(n, pos) ==
    [k \in 1..Len(pos) |->
        LET a == NodeAt(n, SubSeq(pos, 1, k - 1))
        IN IF a.type = "module" THEN a.moduleId ELSE a.name]

CountIn(seq, P(_)) == Cardinality({i \in 1..Len(seq) : P(seq[i])})

-----------------------------------------------------------------------------
(* Claims on extractTestCases, under SpecFlatten *)

fReturned == fPc = "returned"
fCases == CasePositions(fEntity)
fNoThrow == \A p \in fCases : ~NodeAt(Get(fEntity), p).outcome.throws

\* C1: when no reachable case throws, the call returns, and it returns exactly
\* one entity per case node reachable through suite/module containers (as many
\* entities of each name as there are such cases of that name, each with a
\* defined result) and nothing else; an absent root and a tree without
\* reachable cases give the empty sequence.
C1_OneEntityPerCase ==
    (fReturned /\ fNoThrow) =>
        /\ fRet.ok
        /\ Len(fRet.val) = Cardinality(fCases)
        /\ \A nm \in {"t1", "t2", "s1", "x", "m.test.ts", Absent} :
              CountIn(fRet.val, LAMBDA r : r.name = nm) =
              Cardinality({p \in fCases : NodeAt(Get(fEntity), p).name = nm})
        /\ \A i \in 1..Len(fRet.val) : IsDefined(fRet.val[i].result)
        /\ (fCases = {} => fRet = Ok(<<>>))

\* a container holding a case under a node of unknown kind, and a case
C1_Witness ==
    /\ fReturned /\ fRet.ok /\ IsDefined(fEntity) /\ IsContainer(Get(fEntity))
    /\ Len(fRet.val) = 1
    /\ \E p \in PositionsOf(Get(fEntity)) :
          /\ NodeAt(Get(fEntity), p).type = "test"
          /\ ~ThroughContainers(Get(fEntity), p)

\* C2: flattening a container equals the concatenation, in child order, of the
\* flattenings of its children under the prefix extended by the container's
\* identifier, and the entities come in depth-first, left-to-right order of
\* the cases they stand for.
C2_OrderPreserving ==
    (fReturned /\ fRet.ok) =>
        /\ (IsDefined(fEntity) /\ IsContainer(Get(fEntity))) =>
              LET c == Get(fEntity)
                  id == IF c.type = "suite" THEN c.name ELSE c.moduleId
                  kids == ChildrenOf(c)
                  sub == [i \in 1..Len(kids) |->
                             extractTestCases(kids[i], fParentPath \o <<id>>)]
              IN /\ \A i \in 1..Len(kids) : sub[i].ok
                 /\ fRet.val = ConcatAll([i \in 1..Len(kids) |-> sub[i].val])
        /\ LET order == InOrder(fCases)
           IN /\ Len(order) = Len(fRet.val)
              /\ \A i \in 1..Len(order) :
                    LET n == NodeAt(Get(fEntity), order[i])
                    IN /\ fRet.val[i].name = n.name
                       /\ fRet.val[i].result = Some(n.outcome.res)

\* two siblings that both hold cases, of different names
C2_Witness ==
    /\ fReturned /\ fRet.ok /\ IsDefined(fEntity) /\ IsContainer(Get(fEntity))
    /\ Len(ChildrenOf(Get(fEntity))) = 2
    /\ Len(fRet.val) = 2
    /\ fRet.val[1].name = "t2" /\ fRet.val[2].name = "t1"
    /\ Len(fRet.val[1].path) > Len(fRet.val[2].path)

\* C3: called with the empty prefix, every emitted entity has a path of
\* length depth + 1 whose last element is its own name and whose other
\* elements are the identifiers (suite name, moduleId of a module) of its
\* ancestors from the root down.
C3_PathIsAncestry ==
    (fReturned /\ fRet.ok /\ fParentPath = <<>>) =>
        LET order == InOrder(fCases)
        IN /\ Len(order) = Len(fRet.val)
           /\ \A i \in 1..Len(fRet.val) :
                 LET r == fRet.val[i]
                 IN /\ Len(r.path) = Len(order[i]) + 1
                    /\ r.path[Len(r.path)] = r.name
                    /\ SubSeq(r.path, 1, Len(r.path) - 1) =
                          AncestorIds(Get(fEntity), order[i])

\* a case two levels below a module, with a suite in between
C3_Witness ==
    /\ fReturned /\ fRet.ok /\ fParentPath = <<>>
    /\ \E i \in 1..Len(fRet.val) : fRet.val[i].path = <<"m.test.ts", "s1", "t1">>

-----------------------------------------------------------------------------
(* Reading a report back: its File sections *)

Range(seq) == {seq[i] : i \in 1..Len(seq)}

\* the n-th smallest element of a set of numbers
NthSmallest(S, n) == CHOOSE i \in S : Cardinality({j \in S : j <= i}) = n

\* the distinct keys, by first occurrence
FirstSeen(keys) ==
    LET firsts == {i \in 1..Len(keys) : \A j \in 1..(i - 1) : keys[j] # keys[i]}
    IN [n \in 1..Cardinality(firsts) |-> keys[NthSmallest(firsts, n)]]

\* the sections of a report: each line of H with the lines up to the next one
Sections(out, H) ==
    LET at == {i \in 1..Len(out) : out[i] \in H}
    IN [n \in 1..Cardinality(at) |->
           LET a == NthSmallest(at, n)
               b == IF n < Cardinality(at) THEN NthSmallest(at, n + 1) ELSE Len(out) + 1
           IN [header |-> out[a], body |-> SubSeq(out, a + 1, b - 1)]]

TestFileKeys == {FileA, FileB, FileLong}
TypeFileKeys == {SrcA, SrcB, "", FileLong}
TestHeaders == {"File: " \o f : f \in TestFileKeys}
TypeHeaders == {"File: " \o f : f \in TypeFileKeys}

-----------------------------------------------------------------------------
(* Claims on formatTestResults and formatTypeErrors, under SpecFormat *)

tReturned == tPc = "returned"
eReturned == ePc = "returned"

tDefined == {i \in 1..Len(tInput) : IsDefined(tInput[i].result)}
tInState(st) == {i \in tDefined : Get(tInput[i].result).state = st}
tFailedIn(f) == {i \in tInState("failed") : tInput[i].path[1] = f}

\* C4: total is the number of entities with a defined result, whatever their
\* state; passed, failed and skipped count the entities in that state; the
\* header shows these numbers; total >= passed + failed + skipped, with
\* equality exactly when no counted entity has another state.
C4_Counts ==
    tReturned =>
        LET c == TestCounts(tInput)
            nP == Cardinality(tInState("passed"))
            nF == Cardinality(tInState("failed"))
            nS == Cardinality(tInState("skipped"))
        IN /\ c = [passed |-> nP, failed |-> nF, skipped |-> nS,
                   total |-> Cardinality(tDefined)]
           /\ tOut[3] = "Total Tests: " \o ToString(Cardinality(tDefined))
           /\ tOut[4] = "v Passed: " \o ToString(nP)
           /\ (nF > 0 => tOut[5] = "x Failed: " \o ToString(nF))
           /\ (nS > 0 => tOut[IF nF > 0 THEN 6 ELSE 5] = "- Skipped: " \o ToString(nS))
           /\ c.total >= c.passed + c.failed + c.skipped
           /\ (c.total = c.passed + c.failed + c.skipped
                 <=> \A i \in tDefined :
                        Get(tInput[i].result).state \in {"passed", "failed", "skipped"})

\* a leaked container, a pending case and a passed case: total 2, passed 1
C4_Witness ==
    /\ tReturned /\ Len(tInput) = 3
    /\ Cardinality(tDefined) = 2
    /\ tInState("pending") # {} /\ tInState("passed") # {}
    /\ tOut[3] = "Total Tests: 2" /\ tOut[4] = "v Passed: 1"

\* C5: the report holds a 'File: <path>' line for a file exactly when an
\* entity of that file failed, once per such file; with no failed entity the
\* report ends with the blank line that closes the aggregate header.
C5_OnlyFailingFiles ==
    tReturned =>
        /\ \A f \in TestFileKeys : ("File: " \o f) \in Range(tOut) <=> tFailedIn(f) # {}
        /\ Len(Sections(tOut, TestHeaders)) =
              Cardinality({f \in TestFileKeys : tFailedIn(f) # {}})
        /\ tInState("failed") = {} =>
              /\ Len(tOut) = (IF tInState("skipped") # {} THEN 6 ELSE 5)
              /\ tOut[Len(tOut)] = ""
              /\ \A i \in 1..Len(tOut) : tOut[i] # "x Failed: 0"

\* one file with a failure, another whose entities passed or were skipped
C5_Witness ==
    /\ tReturned
    /\ tFailedIn(FileB) # {} /\ tFailedIn(FileA) = {}
    /\ \E i \in tInState("passed") : tInput[i].path[1] = FileA
    /\ "File: b.test.ts" \in Range(tOut)
    /\ "File: a.test.ts" \notin Range(tOut)

\* the sections of the report of formatTestResults are those of the keys, in
\* this order, that hold a failed entity, each with all its failed entities
TestSectionsFollow(keys) ==
    LET order == SelectSeq(FirstSeen(keys), LAMBDA f : tFailedIn(f) # {})
        secs == Sections(tOut, TestHeaders)
        failing(f) == SelectSeq(tInput, LAMBDA t : /\ IsDefined(t.result)
                                                   /\ Get(t.result).state = "failed"
                                                   /\ t.path[1] = f)
    IN /\ Len(secs) = Len(order)
       /\ \A n \in 1..Len(order) :
             /\ secs[n].header = "File: " \o order[n]
             /\ secs[n].body =
                   <<Repeat(TestUnderlineMark, Min(Len(order[n]), 80))>>
                   \o ConcatAll(ConcatAll([i \in 1..Len(failing(order[n])) |->
                                              FailureChunks(failing(order[n])[i])]))
                   \o <<"">>

\* the sections of the report of formatTypeErrors are those of the files of
\* the records, by first occurrence, each with all its records in input order
TypeSectionsFollow ==
    LET order == FirstSeen([i \in 1..Len(eInput) |-> eInput[i].file])
        secs == Sections(eOut, TypeHeaders)
        of(f) == SelectSeq(eInput, LAMBDA r : r.file = f)
    IN /\ Len(secs) = Len(order)
       /\ \A n \in 1..Len(order) :
             /\ secs[n].header = "File: " \o order[n]
             /\ secs[n].body =
                   <<Repeat(TypeUnderlineMark, Min(Len(order[n]), 80))>>
                   \o ConcatAll([i \in 1..Len(of(order[n])) |-> ErrorChunk(of(order[n])[i])])
                   \o <<"">>

\* C6 as stated: both formatters list the file groups in the order in which
\* each file key first appears in the input sequence.
C6_FirstSeenInInput ==
    /\ tReturned => TestSectionsFollow([i \in 1..Len(tInput) |-> tInput[i].path[1]])
    /\ (eReturned /\ eInput # <<>>) => TypeSectionsFollow

\* C6 as amended: formatTypeErrors lists the file groups in the order in which
\* each file first appears in the input; formatTestResults lists the groups
\* it emits (those with a failed entity) in the order in which each file key
\* first appears among the entities whose result is defined; every emitted
\* group holds all its (failed) records, in input order.
C6_FirstSeenAmongGrouped ==
    /\ tReturned =>
          LET results == SelectSeq(tInput, HasResult)
          IN TestSectionsFollow([i \in 1..Len(results) |-> results[i].path[1]])
    /\ (eReturned /\ eInput # <<>>) => TypeSectionsFollow

\* keys in order [B, A, B], B after A in sorted order, all records failing:
\* B's section comes first and holds both B records
C6_Witness ==
    \/ /\ eReturned /\ Len(eInput) = 3
       /\ eInput[1].file = SrcB /\ eInput[2].file = SrcA /\ eInput[3].file = SrcB
       /\ eInput[1] # eInput[3]
       /\ Len(Sections(eOut, TypeHeaders)) = 2
       /\ Sections(eOut, TypeHeaders)[1].header = "File: src/b.ts"
       /\ Sections(eOut, TypeHeaders)[2].header = "File: src/a.ts"
    \/ /\ tReturned /\ Len(tInput) = 3 /\ tInState("failed") = {1, 2, 3}
       /\ tInput[1].path[1] = FileB /\ tInput[2].path[1] = FileA
       /\ tInput[3].path[1] = FileB /\ tInput[1] # tInput[3]
       /\ Len(Sections(tOut, TestHeaders)) = 2
       /\ Sections(tOut, TestHeaders)[1].header = "File: b.test.ts"
       /\ Sections(tOut, TestHeaders)[2].header = "File: a.test.ts"

\* C9: formatTypeErrors returns the string 'No type errors found!' for the
\* empty sequence of records, and for no other input.
C9_Sentinel ==
    eReturned => (eOut = <<"No type errors found!">> <=> eInput = <<>>)

C9_Witness == eReturned /\ eInput = <<>> /\ eOut = <<"No type errors found!">>

\* C10: for N >= 1 records the first line is 'Found 1 type error:' when N = 1
\* and 'Found N type errors:' otherwise, and the second line is empty.
C10_FoundLine ==
    (eReturned /\ Len(eInput) >= 1) =>
        /\ eOut[1] = (IF Len(eInput) = 1 THEN "Found 1 type error:"
                      ELSE "Found " \o ToString(Len(eInput)) \o " type errors:")
        /\ eOut[2] = ""

C10_Witness ==
    /\ eReturned /\ Len(eInput) = 1
    /\ eOut[1] = "Found 1 type error:" /\ eOut[2] = ""

-----------------------------------------------------------------------------
(* Claims on the tools/call handler, under Spec *)

Done(c) == calls[c].pc = "done"
PayloadOf(c) == Get(calls[c].payload)
TextOf(c) == PayloadOf(c).content[1].text

\* the message of the first case, in traversal order, whose result() throws
ThrowingCases(root) ==
    {p \in CasePositions(root) : NodeAt(Get(root), p).outcome.throws}
FirstThrown(root) ==
    NodeAt(Get(root), InOrder(ThrowingCases(root))[1]).outcome.msg
ThrowingFiles(files) == {i \in 1..Len(files) : ThrowingCases(files[i]) # {}}

\* C7: if result() of a reachable case throws, extractTestCases throws that
\* exception and returns no sequence, and the run_tests call that reads such a
\* file returns an error-flagged payload whose only text is 'Error: ' and the
\* message of the exception, and no report.
C7_FailFast ==
    \A c \in CallIds :
        (Done(c) /\ calls[c].name = "run_tests" /\ IsDefined(calls[c].files)) =>
            LET files == Get(calls[c].files)
                bad == ThrowingFiles(files)
            IN /\ \A i \in bad :
                     extractTestCases(files[i], <<>>) = Throw(FirstThrown(files[i]))
               /\ bad # {} =>
                     /\ PayloadOf(c).isError
                     /\ Len(PayloadOf(c).content) = 1
                     /\ TextOf(c) =
                           StrCat(<<"Error: ">>, FirstThrown(files[NthSmallest(bad, 1)]))
                     /\ "Test Run Summary" \notin Range(TextOf(c))
                     /\ calls[c].report = <<>>

\* a passing file, then a file with a passing case and a case that throws
C7_Witness ==
    \E c \in CallIds :
        /\ Done(c) /\ calls[c].name = "run_tests"
        /\ calls[c].files = Some(<<Some(ModA), Some(ModThrows)>>)
        /\ PayloadOf(c).isError
        /\ TextOf(c) = <<"Error: Cannot read properties of undefined">>

\* the messages of the exceptions raised in the handler
RaisedBy(call) ==
    {StartVitestError, VitestRunError, VitestCloseError, CaseError,
     <<"Failed to start Vitest">>,
     <<"Unknown tool: " \o call.name>>,
     StrCat(<<"Invalid arguments for " \o call.name \o ": ">>, ZodIssues)}
    \cup (IF IsDefined(call.world)
          THEN {StrCat(<<"Type checking failed: ">>,
                       runTypeCheck(ProjectDir, Get(call.world)).err)}
          ELSE {})

\* the complete report of a call that raised no exception
CompleteReport(call) ==
    IF call.name = "run_tests"
    THEN formatTestResults(ConcatAll(
             [i \in 1..Len(Get(call.files)) |->
                 extractTestCases(Get(call.files)[i], <<>>).val]))
    ELSE formatTypeErrors(runTypeCheck(ProjectDir, Get(call.world)).val)

NoException(call) ==
    IF call.name = "run_tests"
    THEN /\ IsDefined(call.files) /\ ThrowingFiles(Get(call.files)) = {}
         /\ call.vitest = "closed"
    ELSE /\ call.name = "type_check" /\ IsDefined(call.world)
         /\ runTypeCheck(ProjectDir, Get(call.world)).ok

\* C8: no exception leaves the handler; a call that has returned has returned
\* one text item, which is either the complete report without the error flag
\* or 'Error: <message>' with the flag, never a report with the flag or a
\* part of a report.
C8_PayloadOrError ==
    \A c \in CallIds :
        /\ calls[c].pc # "rejected"
        /\ Done(c) =>
              /\ IsDefined(calls[c].payload)
              /\ Len(PayloadOf(c).content) = 1
              /\ PayloadOf(c).content[1].type = "text"
              /\ IF PayloadOf(c).isError
                 THEN \E m \in RaisedBy(calls[c]) : TextOf(c) = StrCat(<<"Error: ">>, m)
                 ELSE NoException(calls[c]) /\ TextOf(c) = CompleteReport(calls[c])

\* one call answered with an error payload while the other returned a report
C8_Witness ==
    /\ Done("c1") /\ PayloadOf("c1").isError
    /\ calls["c1"].name = "run_tests" /\ calls["c1"].vitest = "open"
    /\ TextOf("c1") = <<"Error: close timed out">>
    /\ Done("c2") /\ ~PayloadOf("c2").isError
    /\ calls["c2"].name = "type_check" /\ Len(TextOf("c2")) > 1

-----------------------------------------------------------------------------
(* Claims on type_check, under Spec *)

TypeCheckDone(c) == Done(c) /\ calls[c].name = "type_check"
\* runTypeCheck was entered
Checked(c) == IsDefined(calls[c].world)
WorldOf(c) == Get(calls[c].world)

\* the configuration is found, parsed and validated
ConfigValid(world) ==
    /\ IsDefined(world.configPath)
    /\ ~IsDefined(world.readError)
    /\ world.optionErrors = <<>>

\* the records of all the diagnostics of the project
AllRecords(world) ==
    [i \in 1..Len(world.diagnostics) |-> RecordOf(ProjectDir, world.diagnostics[i])]

DiagnosticLines(world) == Range(formatTypeErrors(AllRecords(world)))

\* the first configuration problem, in the order not found, unparsable,
\* invalid options
ConfigFailure(world) ==
    IF ~IsDefined(world.configPath)
    THEN <<"Could not find a tsconfig.json file">>
    ELSE IF IsDefined(world.readError)
    THEN <<"Error reading tsconfig.json: " \o Get(world.readError)>>
    ELSE <<"Error parsing tsconfig.json: " \o world.optionErrors[1]>>
         \o Tail(world.optionErrors)

\* C12: with a configuration that is not found, else unparsable, else has
\* option errors, runTypeCheck throws the error of the first of these problems
\* (with the parse message, respectively with all validation messages),
\* creates no program and returns no record, and type_check answers with an
\* error-flagged payload that holds that error and no diagnostics.
C12_ConfigFailFast ==
    \A c \in CallIds :
        (TypeCheckDone(c) /\ Checked(c) /\ ~ConfigValid(WorldOf(c))) =>
            LET world == WorldOf(c)
                errors == runTypeCheck(ProjectDir, world)
            IN /\ ~errors.ok
               /\ errors.err = ConfigFailure(world)
               /\ errors.val = <<>>
               /\ "createProgram" \notin Range(calls[c].trace)
               /\ "formatTypeErrors" \notin Range(calls[c].trace)
               /\ PayloadOf(c).isError
               /\ TextOf(c) = StrCat(<<"Error: Type checking failed: ">>, ConfigFailure(world))
               /\ calls[c].report = <<>>
               /\ "File: " \o SrcB \notin Range(TextOf(c))

\* a configuration that is both unparsable and invalid, in a project with a
\* diagnostic: the parse error is the one reported
C12_Witness ==
    \E c \in CallIds :
        /\ TypeCheckDone(c) /\ Checked(c)
        /\ WorldOf(c) = World(ConfigPath, Some(ParseError), OptionErrors, ProjectFiles, <<DiagB>>)
        /\ PayloadOf(c).isError
        /\ TextOf(c) =
              <<"Error: Type checking failed: Error reading tsconfig.json: Unexpected token } in JSON">>

-----------------------------------------------------------------------------
(* Claims on the arguments and the tool name, under Spec *)

\* startVitest was called
Started(c) == "startVitest" \in Range(calls[c].trace)
\* the value of the selector in the arguments of a call
SelectorOf(c, key) ==
    IF key = "testFiles" THEN Get(calls[c].args).testFiles ELSE Get(calls[c].args).files

\* the include filter the selector stands for: none for an absent or empty
\* selector, [s] for a string s, the array itself otherwise
IncludeFor(v) ==
    IF v.kind \in {"undefined", "null"} \/ v.items = <<>> \/ v.items = <<"">>
    THEN Undefined
    ELSE Some(v.items)

\* C13: startVitest is called with the include filter [s] for a selector that
\* is a string s, with the array for a selector that is an array, and with no
\* include filter for a selector that is undefined, null, the empty string or
\* the empty array.
C13_SelectorNormalized ==
    \A c \in CallIds :
        (calls[c].name = "run_tests" /\ Started(c)) =>
            calls[c].include = IncludeFor(SelectorOf(c, "testFiles"))

KeyOf(name) == IF name = "run_tests" THEN "testFiles" ELSE "files"

\* the arguments carry a selector that is neither a string, an array of
\* strings, null nor undefined
WrongType(c) ==
    /\ calls[c].name \in {"run_tests", "type_check"}
    /\ IsDefined(calls[c].args)
    /\ SelectorOf(c, KeyOf(calls[c].name)).kind \notin {"string", "array", "null", "undefined"}

\* C14: a run_tests or type_check call whose selector has the wrong type
\* returns an error-flagged payload with the text 'Error: Invalid arguments
\* for <tool>: <details>', and has called neither startVitest nor
\* runTypeCheck, nor anything else.
C14_InvalidArguments ==
    \A c \in CallIds :
        WrongType(c) =>
            /\ Done(c)
            /\ PayloadOf(c).isError
            /\ TextOf(c) =
                  StrCat(<<"Error: Invalid arguments for " \o calls[c].name \o ": ">>, ZodIssues)
            /\ calls[c].trace = <<>>
            /\ calls[c].vitest = "none"
            /\ ~Checked(c)

\* both tools called with a number as selector
C14_Witness ==
    /\ WrongType("c1") /\ calls["c1"].name = "run_tests"
    /\ TextOf("c1")[1] = "Error: Invalid arguments for run_tests: ["
    /\ WrongType("c2") /\ calls["c2"].name = "type_check"
    /\ TextOf("c2")[1] = "Error: Invalid arguments for type_check: ["

\* a request was received whose name is that of no tool
UnknownTool(c) == calls[c].pc # "idle" /\ calls[c].name \notin {"run_tests", "type_check"}

\* C15: a call whose name is neither 'run_tests' nor 'type_check' returns an
\* error-flagged payload with the text 'Error: Unknown tool: <name>', and has
\* started neither engine.
C15_UnknownTool ==
    \A c \in CallIds :
        UnknownTool(c) =>
            /\ Done(c)
            /\ PayloadOf(c).isError
            /\ Len(PayloadOf(c).content) = 1
            /\ TextOf(c) = <<"Error: Unknown tool: " \o calls[c].name>>
            /\ calls[c].trace = <<>>
            /\ calls[c].vitest = "none"
            /\ ~Checked(c)

\* a call of watch_tests, which this handler does not know
C15_Witness ==
    \E c \in CallIds :
        /\ UnknownTool(c) /\ calls[c].name = "watch_tests"
        /\ TextOf(c) = <<"Error: Unknown tool: watch_tests">>

\* the files of the program, relative to the project directory
CheckedFiles(c) == {PathRelative(ProjectDir, f) : f \in Range(ProgramFiles(WorldOf(c)))}
\* the files named in the diagnostics the payload reports
ReportedFiles(c) == {f \in TypeFileKeys : "File: " \o f \in Range(TextOf(c))}

\* C16: a type_check call given a files selector checks the selected files
\* only and reports diagnostics of these files only; a call without the
\* selector checks the entire project.
C16_HonoursFiles ==
    \A c \in CallIds :
        (TypeCheckDone(c) /\ Checked(c) /\ ConfigValid(WorldOf(c))) =>
            LET files == TransformSelector(SelectorOf(c, "files"))
            IN IF IsDefined(files)
               THEN /\ CheckedFiles(c) \subseteq Range(Get(files))
                    /\ ReportedFiles(c) \subseteq Range(Get(files))
               ELSE TextOf(c) = formatTypeErrors(AllRecords(WorldOf(c)))

-----------------------------------------------------------------------------
(* Claims on the course of a run_tests call, under Spec *)

\* startVitest gave the call an engine instance
HasInstance(c) == calls[c].vitest # "none"
CloseCalled(c) == "vitest.close" \in Range(calls[c].trace)

\* C17: a run_tests call that has returned its payload has called
\* vitest.close() on the instance it started, whatever its outcome, and the
\* instance is not left open.
C17_AlwaysClosed ==
    \A c \in CallIds :
        (Done(c) /\ HasInstance(c)) => (CloseCalled(c) /\ calls[c].vitest = "closed")

RunTestsDone(c) == Done(c) /\ calls[c].name = "run_tests"
FilesOf(c) == Get(calls[c].files)

\* the calls of a run_tests invocation that met no exception, in order
FullCourse(files) ==
    <<"startVitest", "vitest.start", "setTimeout", "getFiles">>
    \o [i \in 1..Len(files) |-> "extractTestCases"]
    \o <<"formatTestResults", "vitest.close">>

\* the report of all the cases of all the files
ReportOfAll(files) ==
    formatTestResults(ConcatAll([i \in 1..Len(files) |-> extractTestCases(files[i], <<>>).val]))

\* a call holds a payload only once it has returned, and a run_tests payload
\* without the error flag comes after the full course and holds the report
\* of all the files
PayloadAfterFullReport ==
    \A c \in CallIds :
        /\ IsDefined(calls[c].payload) <=> Done(c)
        /\ (RunTestsDone(c) /\ ~PayloadOf(c).isError) =>
              /\ calls[c].trace = FullCourse(FilesOf(c))
              /\ calls[c].vitest = "closed"
              /\ Len(PayloadOf(c).content) = 1
              /\ TextOf(c) = ReportOfAll(FilesOf(c))

\* a call that has returned does nothing more
PayloadIsFinal ==
    \A c \in CallIds : Done(c) => calls'[c] = calls[c]

\* C18: an invocation delivers one payload, and does so only when it returns;
\* the payload of a run_tests call that met no exception is returned after
\* startVitest, vitest.start(), the wait, the flattening of every file the
\* engine reports, the formatting of the whole sequence and vitest.close(),
\* in this order, and holds the report of all the files, never of some.
C18_OnePayloadAfterFullReport ==
    [] PayloadAfterFullReport /\ [][PayloadIsFinal]_vars

\* a run of two files, flattened one after the other and reported together
C18_Witness ==
    \E c \in CallIds :
        /\ RunTestsDone(c) /\ ~PayloadOf(c).isError
        /\ FilesOf(c) = <<Some(ModB), Some(ModA)>>
        /\ Len(calls[c].trace) = 8
        /\ "File: " \o FileB \in Range(TextOf(c))
        /\ "Total Tests: 3" \in Range(TextOf(c))

-----------------------------------------------------------------------------
(* Claims on concurrent invocations, under Spec *)

\* the payload one invocation returns when it is the only one, from its
\* request, the answers of its engine session and the engine's results
RunTestsAlone(args, answers, files) ==
    IF ~SafeParse("testFiles", args).success
    THEN ErrorPayload(StrCat(<<"Invalid arguments for run_tests: ">>, ZodIssues))
    ELSE IF answers[1] = "rejects" THEN ErrorPayload(StartVitestError)
    ELSE IF answers[1] = "null" THEN ErrorPayload(<<"Failed to start Vitest">>)
    ELSE IF answers[2] = "rejects" THEN ErrorPayload(VitestRunError)
    ELSE LET allTestResults == CollectResults(Get(files))
         IN IF ~allTestResults.ok THEN ErrorPayload(allTestResults.err)
            ELSE IF answers[3] = "rejects" THEN ErrorPayload(VitestCloseError)
            ELSE SuccessPayload(formatTestResults(allTestResults.val))

TypeCheckAlone(args, world) ==
    IF ~SafeParse("files", args).success
    THEN ErrorPayload(StrCat(<<"Invalid arguments for type_check: ">>, ZodIssues))
    ELSE LET errors == runTypeCheck(ProjectDir, Get(world))
         IN IF errors.ok THEN SuccessPayload(formatTypeErrors(errors.val))
            ELSE ErrorPayload(StrCat(<<"Type checking failed: ">>, errors.err))

RunAlone(call) ==
    IF call.name = "run_tests" THEN RunTestsAlone(call.args, call.answers, call.files)
    ELSE IF call.name = "type_check" THEN TypeCheckAlone(call.args, call.world)
    ELSE ErrorPayload(<<"Unknown tool: " \o call.name>>)

IndependentPayloads == \A c \in CallIds : Done(c) => PayloadOf(c) = RunAlone(calls[c])

\* a step belongs to one invocation and leaves the others as they are
OneInvocationPerStep ==
    \A c, d \in CallIds : (c # d /\ calls'[c] # calls[c]) => calls'[d] = calls[d]

\* C19: in every interleaving of the invocations, a step of one invocation
\* changes nothing of another, and the payload of each invocation is the one
\* it would return alone with the same arguments, the same answers of its
\* own engine session and the same engine results.
C19_Independent ==
    [] IndependentPayloads /\ [][OneInvocationPerStep]_vars

\* one invocation has returned the report of its two files while the other,
\* which read one file, waits for its own engine to close
C19_Witness ==
    /\ RunTestsDone("c1") /\ ~PayloadOf("c1").isError
    /\ FilesOf("c1") = <<Some(ModB), Some(ModA)>>
    /\ "Total Tests: 3" \in Range(TextOf("c1"))
    /\ calls["c2"].pc = "await_close"
    /\ FilesOf("c2") = <<Some(ModA)>>
    /\ "Total Tests: 1" \in Range(calls["c2"].report)

-----------------------------------------------------------------------------
(* Claims on repeated calls of the formatters, under SpecReformat *)

\* no call changes an input sequence, and an output that was returned is
\* the output of every later call on the same sequence, whatever was called
\* in between
SameAgain ==
    /\ tInput' = tInput
    /\ eInput' = eInput
    /\ tPc # "call" => tOut' = tOut
    /\ ePc # "call" => eOut' = eOut

-----------------------------------------------------------------------------
(* Claims on the layout of the reports, under SpecFormat *)

\* the file a header line names
KeyOfHeader(h, keys) == CHOOSE f \in keys : "File: " \o f = h

\* the failed entities of a file, in input order
tFailing(f) ==
    SelectSeq(tInput, LAMBDA t : /\ IsDefined(t.result)
                                 /\ Get(t.result).state = "failed"
                                 /\ t.path[1] = f)

\* the hierarchy below the file: path[1:] joined by ' > '
Hierarchy(path) ==
    IF Len(path) = 1 THEN ""
    ELSE IF Len(path) = 2 THEN path[2]
    ELSE path[2] \o " > " \o path[3]

\* the lines of one error, where Present says which fields count as present
ErrorLines(error, Present(_)) ==
    (IF Present(error.message)
     THEN <<"  Error: " \o Get(error.message)[1]>> \o Tail(Get(error.message))
     ELSE <<>>)
    \o (IF Present(error.diff)
        THEN <<"  Diff:">> \o [i \in 1..Len(Get(error.diff)) |-> "    " \o Get(error.diff)[i]]
        ELSE <<>>)

\* the lines of one failing entity
DetailLines(test, Present(_)) ==
    LET errors == Get(test.result).errors
    IN <<"", "x " \o Hierarchy(test.path)>>
       \o (IF IsDefined(errors)
           THEN ConcatAll([i \in 1..Len(Get(errors)) |-> ErrorLines(Get(errors)[i], Present)])
           ELSE <<>>)

\* every file section holds, between its underline and its closing blank
\* line, the lines of its failing entities in input order
DetailsRendered(Present(_)) ==
    LET secs == Sections(tOut, TestHeaders)
    IN \A n \in 1..Len(secs) :
          LET failing == tFailing(KeyOfHeader(secs[n].header, TestFileKeys))
              body == secs[n].body
          IN /\ Len(body) >= 2
             /\ SubSeq(body, 2, Len(body) - 1) =
                   ConcatAll([i \in 1..Len(failing) |-> DetailLines(failing[i], Present)])

\* C21 as stated: each failing entity is a blank line, the line 'x ' with
\* path[1:] joined by ' > ', then per error a line '  Error: <message>'
\* exactly when the error has a message and '  Diff:' with the diff lines
\* indented by 4 spaces exactly when it has a diff.
C21_DetailWhenDefined == tReturned => DetailsRendered(IsDefined)

\* C21 as amended: as above, where the Error line is written exactly when
\* message is a non-empty string and the Diff lines exactly when diff is a
\* non-empty string.
C21_DetailWhenNonEmpty ==
    tReturned => DetailsRendered(LAMBDA o : IsDefined(o) /\ Get(o) # <<"">>)

\* an entity with two errors, one with message and diff, one with an empty diff
C21_Witness ==
    /\ tReturned
    /\ \E i \in 1..Len(tInput) : tInput[i].path = <<FileB, "suite2", "case6">>
    /\ \E k \in 1..(Len(tOut) - 5) :
          SubSeq(tOut, k, k + 5) =
              <<"", "x suite2 > case6", "  Error: expected values to match",
                "  Diff:", "    - Expected", "    + Received">>

\* the header block for the counts of the input
ExpectedHeader ==
    LET nF == Cardinality(tInState("failed"))
        nS == Cardinality(tInState("skipped"))
    IN <<"Test Run Summary", "================",
         "Total Tests: " \o ToString(Cardinality(tDefined)),
         "v Passed: " \o ToString(Cardinality(tInState("passed")))>>
       \o (IF nF > 0 THEN <<"x Failed: " \o ToString(nF)>> ELSE <<>>)
       \o (IF nS > 0 THEN <<"- Skipped: " \o ToString(nS)>> ELSE <<>>)
       \o <<"">>

\* C22: the report starts with the title line, the separator line, 'Total
\* Tests: <total>', 'v Passed: <passed>' (also for 0), 'x Failed: <failed>'
\* if and only if failed > 0, '- Skipped: <skipped>' if and only if
\* skipped > 0, and one blank line, in this order, with no other line among
\* them.
C22_Header ==
    tReturned =>
        /\ Len(tOut) >= Len(ExpectedHeader)
        /\ SubSeq(tOut, 1, Len(ExpectedHeader)) = ExpectedHeader
        /\ \A i \in 1..(Len(ExpectedHeader) - 1) : tOut[i] # ""

\* no passed and no failed entity, one skipped
C22_Witness ==
    /\ tReturned
    /\ tInState("passed") = {} /\ tInState("failed") = {}
    /\ Cardinality(tInState("skipped")) = 1
    /\ tOut = <<"Test Run Summary", "================", "Total Tests: 1",
                "v Passed: 0", "- Skipped: 1", "">>

\* the records of a file, in input order
eOfFile(f) == SelectSeq(eInput, LAMBDA r : r.file = f)

\* C23: in the report of a non-empty input each file group is its header, an
\* underline, one line per record of the group and one blank line: a group
\* of k records takes k + 3 lines, whatever the messages of the records.
C23_OneLinePerRecord ==
    (eReturned /\ eInput # <<>>) =>
        LET secs == Sections(eOut, TypeHeaders)
        IN \A n \in 1..Len(secs) :
              LET k == Len(eOfFile(KeyOfHeader(secs[n].header, TypeFileKeys)))
              IN /\ 1 + Len(secs[n].body) = k + 3
                 /\ secs[n].body[Len(secs[n].body)] = ""

\* the line after every File header of a report has min(len(key), 80)
\* characters
UnderlinesCapped(out, keys) ==
    LET secs == Sections(out, {"File: " \o f : f \in keys})
    IN \A n \in 1..Len(secs) :
          LET key == KeyOfHeader(secs[n].header, keys)
          IN /\ Len(secs[n].body) >= 1
             /\ Len(secs[n].body[1]) = Min(Len(key), 80)
             /\ Len(secs[n].body[1]) <= 80

\* C24: in the report of formatTestResults and in the report of
\* formatTypeErrors alike, the line after a 'File:' header is an underline of
\* exactly min(len(key), 80) characters for the key of the group, never more
\* than 80.
C24_SameUnderline ==
    /\ tReturned => UnderlinesCapped(tOut, TestFileKeys)
    /\ (eReturned /\ eInput # <<>>) => UnderlinesCapped(eOut, TypeFileKeys)

-----------------------------------------------------------------------------
(* Claims on the records of runTypeCheck, under Spec *)

\* C25: for a valid configuration runTypeCheck returns one record per
\* diagnostic, in the engine's order; the record of a diagnostic without
\* source file has file '' and line = column = 0, the record of any other has
\* the diagnostic's 0-based line and character plus one, both at least 1, and
\* the file's path relative to the project root.
C25_OneRecordPerDiagnostic ==
    \A c \in CallIds :
        (TypeCheckDone(c) /\ Checked(c) /\ ConfigValid(WorldOf(c))) =>
            LET diagnostics == WorldOf(c).diagnostics
                errors == runTypeCheck(ProjectDir, WorldOf(c))
            IN /\ errors.ok
               /\ Len(errors.val) = Len(diagnostics)
               /\ \A i \in 1..Len(diagnostics) :
                     LET d == diagnostics[i]
                         r == errors.val[i]
                     IN /\ r.code = d.code
                        /\ r.message[1] = d.messageText.text
                        /\ IF ~IsDefined(d.file)
                           THEN r.file = "" /\ r.line = 0 /\ r.column = 0
                           ELSE /\ r.line = Get(d.file).line + 1 /\ r.line >= 1
                                /\ r.column = Get(d.file).character + 1 /\ r.column >= 1
                                /\ ProjectDir \o "/" \o r.file = Get(d.file).fileName

\* three diagnostics, the second without a source file, the first at the
\* very start of its file
C25_Witness ==
    \E c \in CallIds :
        /\ TypeCheckDone(c) /\ Checked(c)
        /\ WorldOf(c).diagnostics = <<DiagB, DiagGlobal, DiagA>>
        /\ "1:1 - error TS2322: Type 'string' is not assignable to type 'number'."
              \in Range(TextOf(c))
        /\ "0:0 - error TS6053: File 'x.ts' not found." \in Range(TextOf(c))

-----------------------------------------------------------------------------
(* Claims on the entities run_tests hands to formatTestResults, under Spec *)

\* formatTestResults was called
Formatted(c) == "formatTestResults" \in Range(calls[c].trace)
\* the files the engine reported that have an entity
ModulesOf(c) == {i \in 1..Len(FilesOf(c)) : IsDefined(FilesOf(c)[i])}
ModuleIdOf(c, i) == Get(FilesOf(c)[i]).moduleId
\* the names of the suites and cases of the modules of the model
InnerNames == {"suite1", "case1", "case2", "case3", "case8"}

\* C26: every entity a run_tests call hands to formatTestResults has a path
\* of at least one element whose first element is the moduleId of the module
\* it was flattened from, which is defined and is no suite or case name; a
\* group of the formatter holds the entities of the modules with its key
\* and no entity of a module with another moduleId.
C26_GroupKeyIsModuleId ==
    \A c \in CallIds :
        (calls[c].name = "run_tests" /\ Formatted(c)) =>
            LET handed == CollectResults(FilesOf(c)).val
                from(i) == extractTestCases(FilesOf(c)[i], <<>>).val
                groups == TestsByFile(handed)
            IN /\ handed = ConcatAll([i \in 1..Len(FilesOf(c)) |-> from(i)])
               /\ \A i \in ModulesOf(c) : \A k \in 1..Len(from(i)) :
                     /\ Len(from(i)[k].path) >= 1
                     /\ from(i)[k].path[1] = ModuleIdOf(c, i)
                     /\ FilePathOf(from(i)[k]) # Absent
                     /\ FilePathOf(from(i)[k]) \notin InnerNames
               /\ \A n \in 1..Len(groups) :
                     /\ groups[n].key \in {ModuleIdOf(c, i) : i \in ModulesOf(c)}
                     /\ \A i \in ModulesOf(c) : \A k \in 1..Len(from(i)) :
                           (from(i)[k] \in Range(groups[n].items))
                               <=> ModuleIdOf(c, i) = groups[n].key

\* two modules, one with a suite, flattened and grouped under their moduleIds
C26_Witness ==
    \E c \in CallIds :
        /\ calls[c].name = "run_tests" /\ Formatted(c)
        /\ FilesOf(c) = <<Some(ModB), Some(ModA)>>
        /\ Len(TestsByFile(CollectResults(FilesOf(c)).val)) = 2
        /\ "File: " \o FileB \in Range(calls[c].report)

-----------------------------------------------------------------------------
(* Claims on the arguments of extractTestCases, under SpecFlatten *)

\* the call leaves the tree and the prefix as they were
InputsKept == fEntity' = fEntity /\ fParentPath' = fParentPath

\* the path of every entity is the prefix, the identifiers of its own
\* ancestors and its own name, and nothing of any other subtree
OwnAncestryOnly ==
    (fReturned /\ fRet.ok) =>
        LET order == InOrder(fCases)
        IN /\ Len(order) = Len(fRet.val)
           /\ \A i \in 1..Len(fRet.val) :
                 fRet.val[i].path =
                     fParentPath \o AncestorIds(Get(fEntity), order[i])
                                 \o <<NodeAt(Get(fEntity), order[i]).name>>

DetailLineSet == {"x " \o Hierarchy(t.path) : t \in TestEntities}
\* the detail lines of a sequence of lines, in order
DetailsIn(lines) == SelectSeq(lines, LAMBDA l : l \in DetailLineSet)

\* C28: the report holds as many 'x <hierarchy>' lines as the header's
\* failed count (none when the Failed line is absent): one per entity in
\* state 'failed', in the section of the entity's path[0], and none for an
\* entity in another state.
C28_DetailPerFailure ==
    tReturned =>
        LET nF == Cardinality(tInState("failed"))
            secs == Sections(tOut, TestHeaders)
        IN /\ Len(DetailsIn(tOut)) = nF
           /\ TestCounts(tInput).failed = nF
           /\ IF nF > 0 THEN tOut[5] = "x Failed: " \o ToString(nF)
              ELSE \A n \in 1..MaxResults : "x Failed: " \o ToString(n) \notin Range(tOut)
           /\ \A f \in TestFileKeys :
                 tFailedIn(f) # {} =>
                     \E n \in 1..Len(secs) :
                         /\ secs[n].header = "File: " \o f
                         /\ DetailsIn(secs[n].body) =
                               [i \in 1..Len(tFailing(f)) |->
                                   "x " \o Hierarchy(tFailing(f)[i].path)]
           /\ DetailsIn(SubSeq(tOut, 1, Len(ExpectedHeader))) = <<>>

\* two failed entities of two files and a skipped one
C28_Witness ==
    /\ tReturned /\ Len(tInput) = 3
    /\ Cardinality(tInState("failed")) = 2 /\ Cardinality(tInState("skipped")) = 1
    /\ tFailedIn(FileA) # {} /\ tFailedIn(FileB) # {}
    /\ Len(DetailsIn(tOut)) = 2
    /\ tOut[5] = "x Failed: 2"

\* the lines of the entry of one record
EntryLines(r) ==
    <<ToString(r.line) \o ":" \o ToString(r.column) \o " - error TS"
        \o ToString(r.code) \o ": " \o r.message[1]>>
    \o Tail(r.message)

\* C29: the report of a non-empty input has one group per file of the
\* input; the group of a file holds the entries of the records of that file,
\* each once, in input order, and of no other record; the records without a
\* file are under the header 'File: ' with an empty underline; the N of the
\* 'Found N' line is the number of entries of all groups together.
C29_PartitionByFile ==
    (eReturned /\ eInput # <<>>) =>
        LET secs == Sections(eOut, TypeHeaders)
            key(n) == KeyOfHeader(secs[n].header, TypeFileKeys)
            entries(n) == Len(eOfFile(key(n)))
        IN /\ {secs[n].header : n \in 1..Len(secs)} =
                 {"File: " \o eInput[i].file : i \in 1..Len(eInput)}
           /\ \A m, n \in 1..Len(secs) : secs[m].header = secs[n].header => m = n
           /\ \A n \in 1..Len(secs) :
                 LET body == secs[n].body
                 IN /\ Len(body) >= 2
                    /\ SubSeq(body, 2, Len(body) - 1) =
                          ConcatAll([i \in 1..entries(n) |-> EntryLines(eOfFile(key(n))[i])])
                    /\ body[Len(body)] = ""
                    /\ key(n) = "" => body[1] = ""
           /\ eOut[1] = "Found " \o ToString(Len(eInput)) \o " type error"
                            \o (IF Len(eInput) = 1 THEN "" ELSE "s") \o ":"
           /\ Len(eInput) =
                 Cardinality({i \in 1..Len(eInput) :
                                 \E n \in 1..Len(secs) : key(n) = eInput[i].file})

\* a record without a file between two different records of one file
C29_Witness ==
    /\ eReturned /\ Len(eInput) = 3
    /\ eInput[1].file = SrcA /\ eInput[2].file = "" /\ eInput[3].file = SrcA
    /\ eInput[1] # eInput[3]
    /\ Len(Sections(eOut, TypeHeaders)) = 2
    /\ Sections(eOut, TypeHeaders)[2] =
          [header |-> "File: ",
           body |-> <<"", "0:0 - error TS6053: File 'x.ts' not found.", "">>]

-----------------------------------------------------------------------------
(* Claims on the outcome of run_tests, under Spec *)

\* an exception was raised in the call
RunTestsRaised(c) ==
    \/ ~SafeParse("testFiles", calls[c].args).success
    \/ \E k \in 1..Len(calls[c].answers) : calls[c].answers[k] \in {"rejects", "null"}
    \/ (IsDefined(calls[c].files) /\ ThrowingFiles(FilesOf(c)) # {})

\* a run_tests payload carries isError only if an exception was raised
FlagOnlyAfterException ==
    \A c \in CallIds : (RunTestsDone(c) /\ PayloadOf(c).isError) => RunTestsRaised(c)

====
